---------------------------- MODULE Spec2Model ----------------------------
(***************************************************************************)
(* The two oVirt REST API clients of this repository:                      *)
(*   "token"  : package api,       type Client    (SSO bearer token)        *)
(*   "cookie" : package ovirt_api, type ApiClient (Basic auth + cookie)     *)
(* One caller drives one client.  Every HTTP round trip is a step of its   *)
(* own: an operation runs up to client.Do, the server's answer is drawn    *)
(* nondeterministically, and the operation runs on from there.  Strings    *)
(* are sequences of one-character strings.                                 *)
(***************************************************************************)
EXTENDS Integers, Sequences, FiniteSets, TLC

VARIABLES
    variant,    \* which of the two clients is modelled
    client,     \* what the caller holds: "none" | "nil" | "live"
    c,          \* the client object: url, username, password, credential
    pc,         \* where the running operation is: "idle" or awaiting a response
    op,         \* the running (or last) public operation and its arguments
    reauth,     \* sendRequest's reauth parameter of the attempt in flight
    reader,     \* what is left to read in the caller's body io.Reader
    sent,       \* requests handed to client.Do during the operation, in order
    recv,       \* the answers client.Do gave, in order
    authCalls,  \* number of Auth() invocations during the operation
    ret,        \* what the operation returned
    target,     \* the value res points to in SendAndParse / GetAndParse
    unmarshals, \* number of xml.Unmarshal calls during the operation
    closed,     \* history: Close() has returned on the client
    open,       \* the answers in recv whose response body is not closed
    callers,    \* concurrent use: where each goroutine sharing the client is
    lastAuth    \* history: credential carried by the response of the most
                \* recent successful Auth()

vars == <<variant, client, c, pc, op, reauth, reader, sent, recv, authCalls,
          ret, target, unmarshals, closed, open, callers, lastAuth>>

(***************************************************************************)
(* Bounds                                                                  *)
(***************************************************************************)
\* largest number of '/' put before and after a path by the caller
MaxSlashes == 1

(***************************************************************************)
(* Strings                                                                 *)
(***************************************************************************)
RECURSIVE TrimLeft(_, _)
TrimLeft(s, cutset) ==
    IF s = <<>> \/ s[1] \notin cutset THEN s ELSE TrimLeft(Tail(s), cutset)

RECURSIVE TrimRight(_, _)
TrimRight(s, cutset) ==
    IF s = <<>> \/ s[Len(s)] \notin cutset
    THEN s
    ELSE TrimRight(SubSeq(s, 1, Len(s) - 1), cutset)

Trim(s, cutset) == TrimLeft(TrimRight(s, cutset), cutset)

\* strings.Split(s, sep)[0]: what precedes the first separator
SplitFirst(s, sep) ==
    IF \E i \in 1..Len(s) : s[i] = sep
    THEN SubSeq(s, 1, (CHOOSE i \in 1..Len(s) :
                          s[i] = sep /\ \A j \in 1..(i - 1) : s[j] # sep) - 1)
    ELSE s

Letters == {"a", "h", "i", "p", "s", "v", "m", "o", "t", "k", "e", "n", "u", "c"}
Digits == {"0", "1", "2", "3", "4", "5", "6", "7", "8", "9"}

Slashes(n) == [i \in 1..n |-> "/"]


(***************************************************************************)
(* net/http: request construction                                          *)
(***************************************************************************)
UpperLetters == {"A", "D", "E", "G", "H", "O", "P", "S", "T"}
TokenChars == Letters \cup UpperLetters \cup Digits

\* net/http validMethod: a non-empty run of token characters
ValidMethod(m) == m # <<>> /\ \A i \in 1..Len(m) : m[i] \in TokenChars

\* number of leading letters of u (net/url getScheme)
SchemeLen(u) ==
    CHOOSE n \in 0..Len(u) :
        /\ \A i \in 1..n : u[i] \in Letters
        /\ n = Len(u) \/ u[n + 1] \notin Letters

HasScheme(u) ==
    SchemeLen(u) > 0 /\ SchemeLen(u) < Len(u) /\ u[SchemeLen(u) + 1] = ":"

\* what follows "scheme://" up to the next '/': host[:port]
Authority(u) ==
    LET rest == SubSeq(u, SchemeLen(u) + 2, Len(u))
    IN  IF HasScheme(u) /\ Len(rest) >= 2 /\ rest[1] = "/" /\ rest[2] = "/"
        THEN SplitFirst(SubSeq(rest, 3, Len(rest)), "/")
        ELSE <<>>

\* net/url parseHost + validOptionalPort: after the last ':' of the
\* authority only digits may follow (none is allowed).  The other ways
\* url.Parse fails need characters no modelled URL contains.
ValidURL(u) ==
    LET a == Authority(u)
    IN  \A i \in 1..Len(a) :
            (a[i] = ":" /\ \A k \in (i + 1)..Len(a) : a[k] # ":")
                => \A j \in (i + 1)..Len(a) : a[j] \in Digits

Absent == <<"(absent)">>
NoHeaders ==
    [ContentType |-> Absent, Accept |-> Absent, Authorization |-> Absent,
     Cookie |-> Absent, Prefer |-> Absent]

\* http.NewRequest(method, url, body): ok is FALSE when it returns an error;
\* an empty method means GET
NewRequest(kind, method, url, body) ==
    [ok     |-> (method = <<>> \/ ValidMethod(method)) /\ ValidURL(url),
     kind   |-> kind,
     method |-> IF method = <<>> THEN <<"G", "E", "T">> ELSE method,
     uri    |-> url,
     body   |-> body,
     hdr    |-> NoHeaders]

\* req.SetBasicAuth(username, password)
SetBasicAuth(req, username, password) ==
    [req EXCEPT !.hdr.Authorization = <<"Basic ">> \o username \o <<":">> \o password]

(***************************************************************************)
(* Errors and return values                                                *)
(***************************************************************************)
NoErr == [kind |-> "none", status |-> 0, msg |-> <<>>]
ErrNewRequest == [kind |-> "newrequest", status |-> 0, msg |-> <<>>]
ErrTransport == [kind |-> "transport", status |-> 0, msg |-> <<>>]
ErrRead == [kind |-> "read", status |-> 0, msg |-> <<>>]
ErrJSON == [kind |-> "json", status |-> 0, msg |-> <<>>]
\* errors.New(resp.Status) / fmt.Errorf(resp.Status): carries the status line
ErrStatus(status) == [kind |-> "status", status |-> status, msg |-> <<>>]
\* errors.New(ssoResp.SsoError)
ErrSSO(msg) == [kind |-> "sso", status |-> 0, msg |-> msg]

(***************************************************************************)
(* What the server (or the network) may answer to one round trip           *)
(***************************************************************************)
NoJSON == [valid |-> FALSE, obj |-> {}]
JSON(obj) == [valid |-> TRUE, obj |-> obj]

\* client.Do returned an error
TransportError ==
    [kind |-> "error", status |-> 0, readOk |-> FALSE, body |-> <<>>,
     json |-> NoJSON, setCookie |-> Absent]

\* client.Do returned a response; readOk: reading its body to the end works
Response(status, readOk, body, json, setCookie) ==
    [kind |-> "response", status |-> status, readOk |-> readOk, body |-> body,
     json |-> json, setCookie |-> setCookie]

Statuses == {200, 300, 401}
\* response bodies: an XML document of one empty element, and text that is
\* no XML document
Bodies == {<<"<", "b", "/", ">">>, <<"d">>}
Tokens == {<<"t">>, <<"u">>}
SsoErrors == {<<"e">>}

\* answers of a resource endpoint; the body of an answer of status 300 or
\* more is never read, one body stands for all of them
ResAnswers ==
    {TransportError}
    \cup {Response(st, TRUE, b, NoJSON, Absent) :
              st \in {x \in Statuses : x < 300}, b \in Bodies}
    \cup {Response(st, FALSE, <<>>, NoJSON, Absent) : st \in {x \in Statuses : x < 300}}
    \cup {Response(st, TRUE, <<"d">>, NoJSON, Absent) : st \in {x \in Statuses : x >= 300}}

\* JSON objects the SSO endpoint may send: any of the fields may be missing
SsoObjects ==
    {{}} \cup {{<<"access_token", t>>} : t \in Tokens}
         \cup {{<<"error", e>>} : e \in SsoErrors}
         \cup {{<<"access_token", t>>, <<"error", e>>} : t \in Tokens, e \in SsoErrors}

AuthStatuses == {200, 401}

\* answers of the SSO token endpoint
SsoAnswers ==
    {TransportError}
    \cup {Response(st, FALSE, <<>>, NoJSON, Absent) : st \in AuthStatuses}
    \cup {Response(st, TRUE, <<>>, NoJSON, Absent) : st \in AuthStatuses}
    \cup {Response(st, TRUE, <<>>, JSON(o), Absent) : st \in AuthStatuses, o \in SsoObjects}

SetCookies ==
    {Absent, <<"a">>, <<"b", ";", "p">>, <<";", "a">>}

\* answers of the base URL to HEAD
HeadAnswers ==
    {TransportError}
    \cup {Response(st, TRUE, <<>>, NoJSON, h) : st \in AuthStatuses, h \in SetCookies}

(***************************************************************************)
(* The client object                                                       *)
(***************************************************************************)
Username == <<"admin">>
Password == <<"secret">>

\* &Client{url, username, password, ...}: the credential starts empty
MakeClient(url) ==
    [url |-> url, username |-> Username, password |-> Password,
     accessToken |-> <<>>, cookie |-> <<>>]

\* no client object (NewClient returned nil)
NilClient == MakeClient(<<>>)

\* the stored session credential of a client of variant v
Credential(v, cl) == IF v = "token" THEN cl.accessToken ELSE cl.cookie

(***************************************************************************)
(* Auth                                                                    *)
(***************************************************************************)
\* json.Unmarshal(body, &ssoResp): a field the object lacks keeps its zero
\* value, the empty string
Unmarshal(obj) ==
    LET field(k) == IF \E kv \in obj : kv[1] = k
                    THEN (CHOOSE kv \in obj : kv[1] = k)[2]
                    ELSE <<>>
    IN  [AccessToken  |-> field("access_token"),
         SsoError     |-> field("error"),
         SsoErrorCode |-> field("error_code")]

SsoPath ==
    <<"/", "s", "s", "o", "/", "o", "a", "u", "t", "h", "/", "t", "o", "k", "e", "n">>

\* strings.TrimRight(c.url, "/api/") + "/sso/oauth/token": the second
\* argument of TrimRight is a set of characters
authURL(cl) == TrimRight(cl.url, {"/", "a", "p", "i"}) \o SsoPath

\* url.Values.Encode(): the form fields, sorted by key
Payload(cl) ==
    <<"grant_type=password", "&password=">> \o cl.password
        \o <<"&scope=ovirt-app-api", "&username=">> \o cl.username

\* token Auth up to c.client.Do(req)
TokenAuthRequest(cl) ==
    LET req == NewRequest("auth", <<"P", "O", "S", "T">>, authURL(cl), Payload(cl))
    IN  [req EXCEPT !.hdr.ContentType = <<"application/x-www-form-urlencoded">>,
                    !.hdr.Accept = <<"application/json">>]

\* Auth returns nil without storing the token it received
StoreTokenSkipped(cl, ssoResp) == cl

\* c.accessToken = ssoResp.AccessToken
StoreToken(cl, ssoResp) == [cl EXCEPT !.accessToken = ssoResp.AccessToken]

\* the HTTP status is looked at before the SSO error
TokenAuthStatusFirst(cl, ans) ==
    IF ans.kind = "error" THEN [c |-> cl, err |-> ErrTransport]
    ELSE IF ~ans.readOk THEN [c |-> cl, err |-> ErrRead]
    ELSE IF ~ans.json.valid THEN [c |-> cl, err |-> ErrJSON]
    ELSE LET ssoResp == Unmarshal(ans.json.obj)
         IN  IF ans.status # 200
             THEN [c |-> cl, err |-> ErrStatus(ans.status)]
             ELSE IF ssoResp.SsoError # <<>>
             THEN [c |-> cl, err |-> ErrSSO(ssoResp.SsoError)]
             ELSE [c |-> StoreToken(cl, ssoResp), err |-> NoErr]

\* token Auth from the answer of c.client.Do(req) on: the client afterwards
\* and the error returned
TokenAuth(cl, ans) ==
    IF ans.kind = "error" THEN [c |-> cl, err |-> ErrTransport]
    ELSE IF ~ans.readOk THEN [c |-> cl, err |-> ErrRead]
    ELSE IF ~ans.json.valid THEN [c |-> cl, err |-> ErrJSON]
    ELSE LET ssoResp == Unmarshal(ans.json.obj)
         IN  IF ssoResp.SsoError # <<>>
             THEN [c |-> cl, err |-> ErrSSO(ssoResp.SsoError)]
             ELSE IF ans.status # 200
             THEN [c |-> cl, err |-> ErrStatus(ans.status)]
             ELSE [c |-> StoreToken(cl, ssoResp), err |-> NoErr]

\* cookie Auth up to c.client.Do(req)
CookieAuthRequest(cl) ==
    LET req == SetBasicAuth(NewRequest("auth", <<"H", "E", "A", "D">>, cl.url, <<>>),
                            cl.username, cl.password)
    IN  [req EXCEPT !.hdr.Prefer = <<"persistent-auth">>]

\* resp.Header.Get("Set-Cookie"): empty when the header is missing
HeaderGet(h) == IF h = Absent THEN <<>> ELSE h

\* a cookie already held is kept
StoreCookieKept(cl, ans) ==
    IF cl.cookie # <<>>
    THEN cl
    ELSE [cl EXCEPT !.cookie = SplitFirst(HeaderGet(ans.setCookie), ";")]

\* c.cookie = strings.Split(resp.Header.Get("Set-Cookie"), ";")[0]
StoreCookie(cl, ans) ==
    [cl EXCEPT !.cookie = SplitFirst(HeaderGet(ans.setCookie), ";")]

\* cookie Auth from the answer of c.client.Do(req) on
CookieAuth(cl, ans) ==
    IF ans.kind = "error" THEN [c |-> cl, err |-> ErrTransport]
    ELSE IF ans.status # 200 THEN [c |-> cl, err |-> ErrStatus(ans.status)]
    ELSE [c |-> StoreCookie(cl, ans), err |-> NoErr]

AuthRequest(v, cl) ==
    IF v = "token" THEN TokenAuthRequest(cl) ELSE CookieAuthRequest(cl)

Auth(v, cl, ans) == IF v = "token" THEN TokenAuth(cl, ans) ELSE CookieAuth(cl, ans)

AuthAnswers(v) == IF v = "token" THEN SsoAnswers ELSE HeadAnswers

(***************************************************************************)
(* Close, SendRequest                                                      *)
(***************************************************************************)
\* Close up to c.client.Do(req)
CloseRequest(cl) ==
    SetBasicAuth(NewRequest("close", <<"H", "E", "A", "D">>, cl.url, <<>>),
                 cl.username, cl.password)

\* only the end of the path is trimmed
RequestURITrimRight(cl, path) ==
    Trim(cl.url, {"/"}) \o <<"/">> \o TrimRight(path, {"/"})

\* strings.Trim(c.url, "/") + "/" + strings.Trim(path, "/")
RequestURI(cl, path) == Trim(cl.url, {"/"}) \o <<"/">> \o Trim(path, {"/"})

\* token sendRequest up to c.client.Do(req)
TokenResourceRequest(cl, path, method, body) ==
    LET req == NewRequest("resource", method, RequestURI(cl, path), body)
    IN  [req EXCEPT !.hdr.ContentType = <<"application/xml">>,
                    !.hdr.Accept = <<"application/xml">>,
                    !.hdr.Authorization = <<"Bearer ">> \o cl.accessToken]

\* cookie SendRequest up to c.client.Do(req)
CookieResourceRequest(cl, path, method, body) ==
    LET req == NewRequest("resource", method, RequestURI(cl, path), body)
    IN  [req EXCEPT !.hdr.ContentType = <<"application/xml">>,
                    !.hdr.Prefer = <<"persistent-auth">>,
                    !.hdr.Cookie = cl.cookie]

ResourceRequest(v, cl, path, method, body) ==
    IF v = "token"
    THEN TokenResourceRequest(cl, path, method, body)
    ELSE CookieResourceRequest(cl, path, method, body)

\* the reader handed to http.NewRequest has been read to its end once the
\* round trip is over
Drained(body) == <<>>

\* re-authentication on every failing status, in both clients
ShouldReauthAnyFailure(v, ans, ra) ==
    ans.kind = "response" /\ ans.status >= 300 /\ ra

\* a 401 leads to re-authentication whatever the reauth argument says
ShouldReauthIgnoresFlag(v, ans, ra) ==
    v = "token" /\ ans.kind = "response" /\ ans.status = 401

\* if resp.StatusCode == 401 && reauth (token client only)
ShouldReauth(v, ans, ra) ==
    v = "token" /\ ans.kind = "response" /\ ans.status = 401 /\ ra

\* the retry is sent with re-authentication still enabled
RetryReauthEnabled == TRUE

\* the reauth argument of the retry: c.sendRequest(path, method, body, false)
RetryReauth == FALSE

\* from the answer of c.client.Do(req) on, the re-authentication branch
\* aside: the status check and the read of the body
Finish(ans) ==
    IF ans.kind = "error" THEN [err |-> ErrTransport, body |-> <<>>]
    ELSE IF ans.status >= 300 THEN [err |-> ErrStatus(ans.status), body |-> <<>>]
    ELSE IF ~ans.readOk THEN [err |-> ErrRead, body |-> <<>>]
    ELSE [err |-> NoErr, body |-> ans.body]

\* the error of the failed Auth() is what sendRequest returns
ReauthFailedReported(first, err) == [err |-> err, body |-> <<>>]

\* Auth() failed after a 401: err is dropped and sendRequest goes on to the
\* status check of the response it holds
ReauthFailed(first, err) == Finish(first)

\* the first attempt goes on to its own status check after the retry
RetryResultDropped(first, retry) == first

\* return c.sendRequest(path, method, body, false): the first attempt
\* returns what its retry returned
RetryResult(first, retry) == retry

(***************************************************************************)
(* What the caller passes                                                  *)
(***************************************************************************)
BaseURLs ==
    {<<"s", ":", "/", "/", "h", "/", "a", "p", "i", "/">>,        \* s://h/api/
     <<"s", ":", "/", "/", "h", "/", "a", "p", "i">>,             \* s://h/api
     <<"s", ":", "/", "/", "h", "p", "/", "a", "p", "i", "/">>,   \* s://hp/api/
     <<"s", ":", "/", "/", "h", ":", "p", "/", "a", "p", "i", "/">>, \* s://h:p/api/
     <<"/", "h", "/">>}                                           \* /h/

\* paths without a leading or trailing '/'
PathCores == {<<"v">>, <<"v", "/", "m">>}

Paths ==
    {Slashes(i) \o core \o Slashes(j) :
        i \in 0..MaxSlashes, j \in 0..MaxSlashes, core \in PathCores}

GET == <<"G", "E", "T">>
POST == <<"P", "O", "S", "T">>

\* the calls of SendRequest: a GET of every path, a POST with a body, and
\* a call whose method, "G T", is no HTTP method
SendCalls ==
    {[path |-> p, method |-> GET, body |-> <<>>] : p \in Paths}
    \cup {[path |-> p, method |-> POST, body |-> <<"x">>] : p \in {<<"v">>}}
    \cup {[path |-> p, method |-> <<"G", " ", "T">>, body |-> <<>>] : p \in {<<"v">>}}

\* the goroutines that may share one client
Callers == {"A", "B"}

\* a goroutine that is in no call on the client
IdleCaller ==
    [pc |-> "idle", reauth |-> FALSE, sent |-> <<>>, pending |-> <<>>,
     raced |-> FALSE]

\* the calls of SendAndParse: a POST with a body, and a call whose method
\* is no HTTP method
ParseCalls ==
    {[path |-> <<"v">>, method |-> POST, body |-> <<"x">>],
     [path |-> <<"v">>, method |-> <<"G", " ", "T">>, body |-> <<>>]}

\* the paths GetAndParse is called with
ParsePaths == {<<"v">>}

\* the operations that unmarshal the body SendRequest returned
ParseOps == {"SendAndParse", "GetAndParse"}

\* the caller's target before anything is unmarshalled into it
ZeroTarget == <<>>

ErrXML == [kind |-> "xml", status |-> 0, msg |-> <<>>]

\* xml.Unmarshal(b, res): the element of a document of one empty element
\* is decoded into the target; anything else is an error and the target
\* stays as it was
XMLUnmarshal(b, tg) ==
    IF /\ Len(b) >= 4
       /\ b[1] = "<" /\ b[Len(b) - 1] = "/" /\ b[Len(b)] = ">"
       /\ \A i \in 2..(Len(b) - 2) : b[i] \notin {"<", ">", "/", " "}
    THEN [err |-> NoErr, target |-> SubSeq(b, 2, Len(b) - 2)]
    ELSE [err |-> ErrXML, target |-> tg]

\* SendAndParse unmarshals whatever SendRequest returned, error or not
ParseStepAlways(out, tg) ==
    LET x == XMLUnmarshal(out.body, tg)
    IN  [err |-> x.err, target |-> x.target, unmarshals |-> 1]

\* SendAndParse after c.SendRequest returned out: the error is returned as
\* it is, a body is unmarshalled into the target
ParseStep(out, tg) ==
    IF out.err # NoErr
    THEN [err |-> out.err, target |-> tg, unmarshals |-> 0]
    ELSE LET x == XMLUnmarshal(out.body, tg)
         IN  [err |-> x.err, target |-> x.target, unmarshals |-> 1]

Op(name, path, method, body) ==
    [name |-> name, path |-> path, method |-> method, body |-> body]

NoRet == [op |-> "none", err |-> NoErr, body |-> <<>>]
Ret(o, err, body) == [op |-> o.name, err |-> err, body |-> body]

\* the credential the answer of a successful Auth carries
Carried(v, ans) ==
    IF v = "token"
    THEN IF \E kv \in ans.json.obj : kv[1] = "access_token"
         THEN (CHOOSE kv \in ans.json.obj : kv[1] = "access_token")[2]
         ELSE <<>>
    ELSE IF ans.setCookie = Absent THEN <<>>
         ELSE SubSeq(ans.setCookie, 1,
                     Cardinality({i \in 1..Len(ans.setCookie) :
                                     \A j \in 1..i : ans.setCookie[j] # ";"}))

(***************************************************************************)
(* The state machine                                                       *)
(***************************************************************************)
Init ==
    /\ variant \in {"token", "cookie"}
    /\ client = "none"
    /\ c = NilClient
    /\ pc = "idle"
    /\ op = Op("none", <<>>, <<>>, <<>>)
    /\ reauth = FALSE
    /\ reader = <<>>
    /\ sent = <<>>
    /\ recv = <<>>
    /\ authCalls = 0
    /\ ret = NoRet
    /\ target = ZeroTarget
    /\ unmarshals = 0
    /\ closed = FALSE
    /\ open = {}
    /\ callers = [x \in Callers |-> IdleCaller]
    /\ lastAuth = <<>>

\* the code that obtained the response ans to req has deferred
\* resp.Body.Close(): the token client's sendRequest as soon as it has the
\* response, the cookie client's SendRequest once the status is below 300;
\* Auth() and Close() never do
CloseDeferred(v, req, ans) ==
    /\ req.kind = "resource"
    /\ v = "token" \/ ans.status < 300

\* the responses among the answers r to the requests s whose body is open
\* when the operation is at p: deferred calls run when sendRequest returns
OpenBodies(v, s, r, p) ==
    {i \in 1..Len(r) :
        /\ r[i].kind = "response"
        /\ ~(p = "idle" /\ CloseDeferred(v, s[i], r[i]))}

\* the new values of everything an operation's step may change
Updated(k, cl, p, ra, rd, s, r, n, rt, la, tg, um) ==
    /\ client' = k
    /\ c' = cl
    /\ pc' = p
    /\ reauth' = ra
    /\ reader' = rd
    /\ sent' = s
    /\ recv' = r
    /\ authCalls' = n
    /\ ret' = rt
    /\ lastAuth' = la
    /\ target' = tg
    /\ unmarshals' = um
    /\ closed' = (closed \/ rt.op = "Close")
    /\ open' = OpenBodies(variant, s, r, p)
    /\ callers' = callers
    /\ variant' = variant

\* a step that is not the return of SendAndParse / GetAndParse: nothing has
\* been unmarshalled into a caller's target
Update(k, cl, p, ra, rd, s, r, n, rt, la) ==
    Updated(k, cl, p, ra, rd, s, r, n, rt, la, ZeroTarget, 0)

\* NewClient hands out the client whatever Auth() returned
NewClientReturnAlways(cl, err) == [client |-> "live", c |-> cl, err |-> err]

\* NewClient after client.Auth(): (nil, err) or (client, nil)
NewClientReturn(cl, err) ==
    IF err # NoErr
    THEN [client |-> "nil", c |-> NilClient, err |-> err]
    ELSE [client |-> "live", c |-> cl, err |-> NoErr]

\* sendRequest returns res to the caller of SendRequest; a retry's result
\* passes through the first attempt
SendReturn(o, cl, res, s, r, n, rd, la) ==
    LET out == IF Len(r) > 0 /\ ShouldReauth(variant, r[1], TRUE)
               THEN RetryResult(Finish(r[1]), res)
               ELSE res
    IN  IF o.name \in ParseOps
        THEN LET parsed == ParseStep(out, ZeroTarget)
             IN  Updated(client, cl, "idle", FALSE, rd, s, r, n,
                         Ret(o, parsed.err, <<>>), la, parsed.target,
                         parsed.unmarshals)
        ELSE Update(client, cl, "idle", FALSE, rd, s, r, n,
                    Ret(o, out.err, out.body), la)

\* sendRequest(path, method, body, ra) up to c.client.Do(req)
SendAttempt(o, cl, ra, s, r, n, rd, la) ==
    LET req == ResourceRequest(variant, cl, o.path, o.method, rd)
    IN  IF ~req.ok
        THEN SendReturn(o, cl, [err |-> ErrNewRequest, body |-> <<>>], s, r, n, rd, la)
        ELSE Update(client, cl, "send_wait", ra, Drained(rd), Append(s, req), r, n,
                    NoRet, la)

\* Auth() returned err to the code that called it
AuthReturn(o, cl, err, s, r, n, rd, la) ==
    IF o.name = "NewClient"
    THEN LET nc == NewClientReturn(cl, err)
         IN  Update(nc.client, nc.c, "idle", FALSE, rd, s, r, n,
                    Ret(o, nc.err, <<>>), la)
    ELSE IF o.name = "Auth"
    THEN Update(client, cl, "idle", FALSE, rd, s, r, n, Ret(o, err, <<>>), la)
    ELSE \* in sendRequest: if err == nil { return c.sendRequest(..., false) }
         IF err = NoErr
         THEN SendAttempt(o, cl, RetryReauth, s, r, n, rd, la)
         ELSE SendReturn(o, cl, ReauthFailed(r[1], err), s, r, n, rd, la)

\* Auth() up to c.client.Do(req)
AuthCall(o, cl, s, r, n, rd, la) ==
    LET req == AuthRequest(variant, cl)
    IN  IF ~req.ok
        THEN AuthReturn(o, cl, ErrNewRequest, s, r, n + 1, rd, la)
        ELSE Update(client, cl, "auth_wait", reauth, rd, Append(s, req), r, n + 1,
                    NoRet, la)

\* NewClient(url, username, password, ...)
CallNewClient(url) ==
    /\ pc = "idle"
    /\ client \in {"none", "nil"}
    /\ op' = Op("NewClient", <<>>, <<>>, <<>>)
    /\ AuthCall(op', MakeClient(url), <<>>, <<>>, 0, <<>>, <<>>)

\* c.Auth() called by the user of the client
CallAuth ==
    /\ pc = "idle"
    /\ client = "live"
    /\ op' = Op("Auth", <<>>, <<>>, <<>>)
    /\ AuthCall(op', c, <<>>, <<>>, 0, <<>>, lastAuth)

\* c.SendRequest(path, method, body)
CallSendRequest(path, method, body) ==
    /\ pc = "idle"
    /\ client = "live"
    /\ op' = Op("SendRequest", path, method, body)
    /\ SendAttempt(op', c, TRUE, <<>>, <<>>, 0, body, lastAuth)

\* c.Get(path): SendRequest(path, "GET", nil)
CallGet(path) ==
    /\ pc = "idle"
    /\ client = "live"
    /\ op' = Op("Get", path, GET, <<>>)
    /\ SendAttempt(op', c, TRUE, <<>>, <<>>, 0, <<>>, lastAuth)

\* c.SendAndParse(path, method, res, body)
CallSendAndParse(path, method, body) ==
    /\ pc = "idle"
    /\ client = "live"
    /\ op' = Op("SendAndParse", path, method, body)
    /\ SendAttempt(op', c, TRUE, <<>>, <<>>, 0, body, lastAuth)

\* c.GetAndParse(path, res): SendAndParse(path, "GET", res, nil)
CallGetAndParse(path) ==
    /\ pc = "idle"
    /\ client = "live"
    /\ op' = Op("GetAndParse", path, GET, <<>>)
    /\ SendAttempt(op', c, TRUE, <<>>, <<>>, 0, <<>>, lastAuth)

\* Close reports a failed round trip
CloseResultReported(ans) ==
    IF ans.kind = "error" THEN ErrTransport
    ELSE IF ans.status >= 300 THEN ErrStatus(ans.status)
    ELSE NoErr

\* what Close makes of the outcome of c.client.Do(req): nothing
CloseResult(ans) == NoErr

\* Close() leaves a client without its credential
AfterCloseCleared(cl) == [cl EXCEPT !.accessToken = <<>>, !.cookie = <<>>]

\* the client object once Close() has returned: no field is written
AfterClose(cl) == cl

\* c.Close() up to c.client.Do(req)
CallClose ==
    /\ pc = "idle"
    /\ client = "live"
    /\ op' = Op("Close", <<>>, <<>>, <<>>)
    /\ LET req == CloseRequest(c)
       IN  IF ~req.ok
           THEN Update(client, AfterClose(c), "idle", FALSE, <<>>, <<>>, <<>>, 0,
                       Ret(op', NoErr, <<>>), lastAuth)
           ELSE Update(client, c, "close_wait", FALSE, <<>>, <<req>>, <<>>, 0,
                       NoRet, lastAuth)

\* the answer to Auth's request arrives
AuthResponse(ans) ==
    /\ pc = "auth_wait"
    /\ op' = op
    /\ LET a == Auth(variant, c, ans)
       IN  AuthReturn(op, a.c, a.err, sent, Append(recv, ans), authCalls, reader,
                      IF a.err = NoErr THEN Carried(variant, ans) ELSE lastAuth)

\* the answer to sendRequest's request arrives
ResourceResponse(ans) ==
    /\ pc = "send_wait"
    /\ op' = op
    /\ IF ShouldReauth(variant, ans, reauth)
       THEN AuthCall(op, c, sent, Append(recv, ans), authCalls, reader, lastAuth)
       ELSE SendReturn(op, c, Finish(ans), sent, Append(recv, ans), authCalls,
                       reader, lastAuth)

\* the answer to Close's request arrives
CloseResponse(ans) ==
    /\ pc = "close_wait"
    /\ op' = op
    /\ Update(client, AfterClose(c), "idle", FALSE, reader, sent,
              Append(recv, ans), authCalls, Ret(op, CloseResult(ans), <<>>),
              lastAuth)

Next ==
    \/ \E url \in BaseURLs : CallNewClient(url)
    \/ CallAuth
    \/ \E call \in SendCalls : CallSendRequest(call.path, call.method, call.body)
    \/ \E path \in PathCores : CallGet(path)
    \/ \E call \in ParseCalls :
           CallSendAndParse(call.path, call.method, call.body)
    \/ \E path \in ParsePaths : CallGetAndParse(path)
    \/ CallClose
    \/ \E ans \in AuthAnswers(variant) : AuthResponse(ans)
    \/ \E ans \in ResAnswers : ResourceResponse(ans)
    \/ \E ans \in HeadAnswers : CloseResponse(ans)

Spec == Init /\ [][Next]_vars

(***************************************************************************)
(* One token client shared by goroutines.  Each of them runs Get("v"),     *)
(* step by step as above; nothing in the client orders their reads and     *)
(* writes of c.accessToken.  The write of Auth() is a step of its own, so   *)
(* that what runs between its start and its end is visible.                 *)
(***************************************************************************)
\* what a read or a write of a string that races with a write can leave
Torn == <<"(torn)">>

\* the other goroutines that are in the middle of c.accessToken = ...
Writers(x) == {y \in Callers \ {x} : callers[y].pc = "storing"}

\* what x can read from c.accessToken: with no write under way its value,
\* else that value, the value being written, or a mix of the two
ReadOutcomes(x) ==
    {c.accessToken}
    \cup {callers[y].pending : y \in Writers(x)}
    \cup (IF Writers(x) # {} THEN {Torn} ELSE {})

\* what c.accessToken holds when x's write is over: the value x wrote, or,
\* with another write under way, a mix
WriteOutcomes(x) ==
    {callers[x].pending} \cup (IF Writers(x) # {} THEN {Torn} ELSE {})

\* only c and the goroutines change
ConcUnchanged ==
    UNCHANGED <<variant, client, pc, op, reauth, reader, sent, recv, authCalls,
                ret, target, unmarshals, closed, open, lastAuth>>

\* a client NewClient has returned, handed to the goroutines
ConcInit ==
    /\ variant = "token"
    /\ client = "live"
    /\ c = [MakeClient(<<"s", ":", "/", "/", "h", "/", "a", "p", "i", "/">>)
              EXCEPT !.accessToken = <<"t">>]
    /\ pc = "idle"
    /\ op = Op("none", <<>>, <<>>, <<>>)
    /\ reauth = FALSE
    /\ reader = <<>>
    /\ sent = <<>>
    /\ recv = <<>>
    /\ authCalls = 0
    /\ ret = NoRet
    /\ target = ZeroTarget
    /\ unmarshals = 0
    /\ closed = FALSE
    /\ open = {}
    /\ callers = [x \in Callers |-> IdleCaller]
    /\ lastAuth = <<"t">>

\* x runs sendRequest("v", "GET", nil, ra) up to c.client.Do(req): the call
\* of Get (ra = true) or the retry (ra = false); c.accessToken is read for
\* the Authorization header
ConcSend(x) ==
    /\ callers[x].pc \in {"idle", "retry"}
    /\ \E tok \in ReadOutcomes(x) :
           LET req == TokenResourceRequest([c EXCEPT !.accessToken = tok],
                                           <<"v">>, GET, <<>>)
               ra == IF callers[x].pc = "idle" THEN TRUE ELSE RetryReauth
           IN  callers' = [callers EXCEPT ![x] =
                              [pc |-> "send_wait", reauth |-> ra, sent |-> <<req>>,
                               pending |-> <<>>, raced |-> Writers(x) # {}]]
    /\ c' = c
    /\ ConcUnchanged

\* the answer to x's request arrives: Auth() up to c.client.Do(req) after a
\* 401 with reauth, else sendRequest returns
ConcResourceResponse(x, ans) ==
    /\ callers[x].pc = "send_wait"
    /\ IF ShouldReauth(variant, ans, callers[x].reauth)
       THEN callers' = [callers EXCEPT ![x].pc = "auth_wait",
                                       ![x].sent = <<TokenAuthRequest(c)>>,
                                       ![x].raced = FALSE]
       ELSE callers' = [callers EXCEPT ![x] = IdleCaller]
    /\ c' = c
    /\ ConcUnchanged

\* the answer to the request of x's Auth() arrives: on an error sendRequest
\* returns, else the write of c.accessToken starts
ConcAuthResponse(x, ans) ==
    /\ callers[x].pc = "auth_wait"
    /\ LET a == TokenAuth(c, ans)
       IN  IF a.err # NoErr
           THEN callers' = [callers EXCEPT ![x] = IdleCaller]
           ELSE callers' = [callers EXCEPT ![x].pc = "storing",
                                           ![x].pending = a.c.accessToken]
    /\ c' = c
    /\ ConcUnchanged

\* x's write of c.accessToken is over; Auth() returns nil and sendRequest
\* goes on to the retry
ConcStore(x) ==
    /\ callers[x].pc = "storing"
    /\ \E tok \in WriteOutcomes(x) : c' = [c EXCEPT !.accessToken = tok]
    /\ callers' = [callers EXCEPT ![x].pc = "retry", ![x].pending = <<>>]
    /\ ConcUnchanged

ConcNext ==
    \/ \E x \in Callers : ConcSend(x)
    \/ \E x \in Callers, ans \in ResAnswers : ConcResourceResponse(x, ans)
    \/ \E x \in Callers, ans \in SsoAnswers : ConcAuthResponse(x, ans)
    \/ \E x \in Callers : ConcStore(x)

ConcSpec == ConcInit /\ [][ConcNext]_vars

(***************************************************************************)
(* Vocabulary of the properties                                            *)
(***************************************************************************)
SendOps == {"SendRequest", "Get"}

\* the operation named has returned
Returned(names) == pc = "idle" /\ ret.op \in names

Is401(ans) == ans.kind = "response" /\ ans.status = 401

\* value of field k of the JSON object of an SSO answer, empty if missing
JsonField(ans, k) ==
    IF \E kv \in ans.json.obj : kv[1] = k
    THEN (CHOOSE kv \in ans.json.obj : kv[1] = k)[2]
    ELSE <<>>

\* the answers that make Auth() succeed
Accepted(v, ans) ==
    IF v = "token"
    THEN /\ ans.kind = "response" /\ ans.readOk /\ ans.json.valid
         /\ JsonField(ans, "error") = <<>>
         /\ ans.status = 200
    ELSE ans.kind = "response" /\ ans.status = 200

ResourceRequests == {i \in 1..Len(sent) : sent[i].kind = "resource"}

\* a 401, a successful re-authentication and a retry answered below 300
RetriedBelow300 ==
    /\ variant = "token" /\ op.name \in SendOps /\ Len(recv) = 3
    /\ Is401(recv[1])
    /\ Accepted(variant, recv[2])
    /\ recv[3].kind = "response" /\ recv[3].status < 300

(***************************************************************************)
(* C1                                                                      *)
(***************************************************************************)
\* C1 as stated: token client, first attempt answered 401, re-authentication
\* succeeds, retry answered with a status below 300: the call succeeds,
\* returns the body of the retried response and Auth() ran exactly once.
C1_AsStated ==
    RetriedBelow300 =>
        /\ pc = "idle"
        /\ ret.err = NoErr
        /\ ret.body = recv[3].body
        /\ authCalls = 1

\* C1 amended: the same, for a retry whose response body is read to its end
\* without error; when that read fails the call fails with the read error.
\* In both cases Auth() ran exactly once and the 401 response is not what
\* is returned.
C1_RetrySucceeds ==
    RetriedBelow300 =>
        /\ pc = "idle"
        /\ authCalls = 1
        /\ Cardinality(ResourceRequests) = 2
        /\ recv[3].readOk => ret.err = NoErr /\ ret.body = recv[3].body
        /\ ~recv[3].readOk => ret.err = ErrRead

C1_Witness ==
    /\ RetriedBelow300 /\ Returned(SendOps)
    /\ recv[3].readOk /\ recv[3].body # recv[1].body
    /\ ret.err = NoErr /\ ret.body = recv[3].body

(***************************************************************************)
(* C2                                                                      *)
(***************************************************************************)
\* C2: token client, first attempt and retry both answered 401: the call
\* has returned the error carrying the status line of the 401, Auth() ran
\* exactly once, and two resource requests were sent, no third.
C2_Second401Fails ==
    (/\ variant = "token" /\ op.name \in SendOps /\ Len(recv) >= 3
     /\ Is401(recv[1]) /\ Is401(recv[3]))
    =>  /\ pc = "idle"
        /\ ret.op = op.name
        /\ ret.err = ErrStatus(401)
        /\ authCalls = 1
        /\ Len(sent) = 3
        /\ Cardinality(ResourceRequests) = 2

C2_Witness ==
    /\ variant = "token" /\ Returned(SendOps) /\ Len(recv) = 3
    /\ Is401(recv[1]) /\ Accepted(variant, recv[2]) /\ Is401(recv[3])
    /\ ret.err = ErrStatus(401)

(***************************************************************************)
(* C3                                                                      *)
(***************************************************************************)
\* C3: in both variants NewClient returns a client and no error, or no
\* client and an error: when the initial Auth() fails (its request cannot
\* be built, transport error, status other than 200, SSO error, unreadable
\* or unparsable body) the caller gets nil and that error; a client is
\* returned only after one Auth() that succeeded; and no client is held
\* while NewClient runs.
C3_NewClientAtomic ==
    /\ (op.name = "NewClient" /\ pc # "idle") => client # "live"
    /\ Returned({"NewClient"}) =>
        /\ client \in {"live", "nil"}
        /\ client = "live" <=> ret.err = NoErr
        /\ client = "nil" => c = NilClient
        /\ authCalls = 1
        /\ client = "live" <=> (Len(recv) = 1 /\ Accepted(variant, recv[1]))
        /\ recv = <<>> => ret.err = ErrNewRequest
        /\ recv # <<>> => ret.err = Auth(variant, c, recv[1]).err

C3_Witness ==
    /\ Returned({"NewClient"}) /\ client = "nil"
    /\ Len(recv) = 1 /\ recv[1].kind = "response" /\ recv[1].status = 200
    /\ ret.err.kind = "sso"

(***************************************************************************)
(* C4                                                                      *)
(***************************************************************************)
\* C4: in both variants, once NewClient has returned a client the stored
\* session credential (accessToken / cookie) is non-empty, and it stays
\* non-empty through every later Auth, SendRequest, Get and Close.
C4_CredentialNonEmpty ==
    client = "live" => Credential(variant, c) # <<>>

(***************************************************************************)
(* C5                                                                      *)
(***************************************************************************)
\* the session credential a resource request carries
CredentialSent(v, req) ==
    IF v = "token"
    THEN IF Len(req.hdr.Authorization) > 0 /\ req.hdr.Authorization[1] = "Bearer "
         THEN Tail(req.hdr.Authorization)
         ELSE Absent
    ELSE req.hdr.Cookie

LastResourceRequest ==
    sent[CHOOSE i \in ResourceRequests : \A j \in ResourceRequests : j <= i]

\* C5: the resource request SendRequest/Get sent last carries the credential
\* of the most recent successful Auth() on the client (Authorization:
\* Bearer <accessToken>, resp. Cookie: <cookie>); the retry after a
\* 401-triggered re-authentication carries the token that
\* re-authentication obtained.
C5_RequestsCarryCredential ==
    (op.name \in SendOps /\ ResourceRequests # {}) =>
        /\ CredentialSent(variant, LastResourceRequest) = lastAuth
        /\ (variant = "token" /\ Len(sent) = 3) =>
               sent[3].hdr.Authorization
                   = <<"Bearer ">> \o JsonField(recv[2], "access_token")

C5_Witness ==
    /\ variant = "token" /\ op.name \in SendOps /\ pc = "send_wait"
    /\ Len(sent) = 3 /\ Len(recv) = 2
    /\ sent[3].hdr.Authorization # sent[1].hdr.Authorization
    /\ sent[3].hdr.Authorization = <<"Bearer ">> \o lastAuth

(***************************************************************************)
(* C6                                                                      *)
(***************************************************************************)
\* C6 as stated: no failure is retried except through the one 401 retry of
\* the token client: a cookie client's SendRequest sends exactly one HTTP
\* request and never calls Auth(); a token client's call whose first answer
\* is a transport error or a status of 300 or more other than 401 fails
\* after exactly one request and no Auth().
C6_AsStated ==
    /\ (variant = "cookie" /\ Returned(SendOps)) =>
           Len(sent) = 1 /\ authCalls = 0
    /\ (/\ variant = "token" /\ op.name \in SendOps /\ recv # <<>>
        /\ \/ recv[1].kind = "error"
           \/ recv[1].status >= 300 /\ recv[1].status # 401)
       => /\ pc = "idle" /\ ret.err # NoErr
          /\ Len(sent) = 1 /\ authCalls = 0

\* C6 amended: a cookie client's SendRequest sends at most one HTTP request
\* (exactly one unless the request cannot be built, when it sends none and
\* fails) and never calls Auth(), a 401 failing at once like every status of
\* 300 or more; a token client's call whose first answer is a transport
\* error or a status of 300 or more other than 401 fails after exactly one
\* request and no Auth().
C6_NoOtherRetry ==
    /\ (variant = "cookie" /\ op.name \in SendOps) =>
           /\ Len(sent) <= 1 /\ authCalls = 0
           /\ Len(recv) = 1 => pc = "idle"
           /\ (pc = "idle" /\ sent = <<>>) => ret.err = ErrNewRequest
           /\ (recv # <<>> /\ recv[1].kind = "response" /\ recv[1].status >= 300)
                  => ret.err = ErrStatus(recv[1].status)
    /\ (/\ variant = "token" /\ op.name \in SendOps /\ recv # <<>>
        /\ \/ recv[1].kind = "error"
           \/ recv[1].status >= 300 /\ recv[1].status # 401)
       => /\ pc = "idle" /\ ret.err # NoErr
          /\ Len(sent) = 1 /\ authCalls = 0

C6_Witness ==
    /\ variant = "cookie" /\ Returned(SendOps)
    /\ Len(sent) = 1 /\ Len(recv) = 1 /\ Is401(recv[1])
    /\ ret.err = ErrStatus(401) /\ authCalls = 0

(***************************************************************************)
(* C7                                                                      *)
(***************************************************************************)
\* C7: whatever becomes of its HEAD request (it cannot be built, the
\* transport fails, any status), Close returns to the caller with no
\* error; it sends at most one request, a HEAD, never calls Auth() and
\* never retries.
C7_CloseNeverFails ==
    op.name = "Close" =>
        /\ Len(sent) <= 1 /\ authCalls = 0
        /\ \A i \in 1..Len(sent) :
               sent[i].kind = "close" /\ sent[i].method = <<"H", "E", "A", "D">>
        /\ (sent = <<>> \/ Len(recv) = 1) <=> pc = "idle"
        /\ pc = "idle" => ret = [op |-> "Close", err |-> NoErr, body |-> <<>>]

C7_Witness ==
    /\ Returned({"Close"}) /\ Len(sent) = 1
    /\ recv = <<TransportError>> /\ ret.err = NoErr

(***************************************************************************)
(* C8                                                                      *)
(***************************************************************************)
\* the SSO answer was read and parsed
Parsed(ans) == ans.kind = "response" /\ ans.readOk /\ ans.json.valid

\* C8: in every step in which the token client's Auth() gets its answer:
\* Auth() succeeds exactly when the answer parses, its error field is empty
\* and the status is 200, and then stores access_token as the credential;
\* otherwise the credential is left alone and an error is returned: the SSO
\* error message whenever the error field is non-empty (with status 200 and
\* with any other status), the status line when the error field is empty
\* and the status is not 200.  Inside SendRequest the retry is sent exactly
\* when Auth() succeeded.
C8_TokenAuthOutcome ==
    [][(variant = "token" /\ pc = "auth_wait") =>
        LET ans == recv'[Len(recv')]
            ok  == Parsed(ans) /\ JsonField(ans, "error") = <<>> /\ ans.status = 200
        IN  /\ ok => c'.accessToken = JsonField(ans, "access_token")
            /\ ~ok => c'.accessToken = c.accessToken
            /\ op.name \in {"Auth", "NewClient"} =>
                /\ pc' = "idle"
                /\ ret'.err = NoErr <=> ok
                /\ (Parsed(ans) /\ JsonField(ans, "error") # <<>>)
                       => ret'.err = ErrSSO(JsonField(ans, "error"))
                /\ (Parsed(ans) /\ JsonField(ans, "error") = <<>> /\ ans.status # 200)
                       => ret'.err = ErrStatus(ans.status)
            /\ op.name \in SendOps => (ok <=> Len(sent') = 3)
      ]_vars

C8_Witness ==
    /\ variant = "token" /\ Returned({"Auth"}) /\ Len(recv) = 1
    /\ Parsed(recv[1]) /\ recv[1].status # 200
    /\ JsonField(recv[1], "error") # <<>>
    /\ JsonField(recv[1], "access_token") # <<>>
    /\ ret.err = ErrSSO(JsonField(recv[1], "error"))
    /\ c.accessToken # JsonField(recv[1], "access_token")

(***************************************************************************)
(* C9                                                                      *)
(***************************************************************************)
\* C9: Auth() is idempotent in both variants: the credential of a client
\* is always the one carried by the answer of its most recent successful
\* Auth(), whatever was stored before and however many Auth() calls came
\* earlier; no authentication request carries the stored credential (no
\* Cookie header, no Bearer authorization); and for every server answer, a
\* second Auth() against the same answer leaves the client and the error as
\* the first left them.
C9_AuthIdempotent ==
    /\ client = "live" => Credential(variant, c) = lastAuth
    /\ \A i \in 1..Len(sent) :
           sent[i].kind = "auth" =>
               /\ sent[i].hdr.Cookie = Absent
               /\ sent[i].hdr.Authorization
                      \in {Absent, <<"Basic ">> \o c.username \o <<":">> \o c.password}
    /\ (client = "live" /\ pc = "idle") =>
           \A ans \in AuthAnswers(variant) :
               LET once  == Auth(variant, c, ans)
                   twice == Auth(variant, once.c, ans)
               IN  twice.c = once.c /\ twice.err = once.err

C9_Witness ==
    /\ Returned({"Auth"}) /\ ret.err = NoErr /\ Len(recv) = 1
    /\ sent[1].kind = "auth"
    /\ Credential(variant, MakeClient(c.url)) # Credential(variant, c)
    /\ Credential(variant, c) = Carried(variant, recv[1])
    /\ Auth(variant, c, recv[1]).c = c

(***************************************************************************)
(* C10                                                                     *)
(***************************************************************************)
\* s without the '/' characters at its two ends
Stripped(s) ==
    LET keep == {i \in 1..Len(s) : s[i] # "/"}
    IN  IF keep = {} THEN <<>>
        ELSE SubSeq(s, CHOOSE i \in keep : \A j \in keep : i <= j,
                       CHOOSE i \in keep : \A j \in keep : j <= i)

\* C10: every resource request targets the base URL without its
\* surrounding slashes + "/" + the path without its surrounding slashes;
\* paths that differ only in leading and trailing slashes give the same
\* URI; and trimming a trimmed path changes nothing.
C10_PathJoin ==
    /\ op.name \in SendOps =>
           \A i \in ResourceRequests :
               sent[i].uri = Stripped(c.url) \o <<"/">> \o Stripped(op.path)
    /\ client = "live" =>
           \A core \in PathCores :
               \A i \in 0..MaxSlashes, j \in 0..MaxSlashes :
                   /\ RequestURI(c, Slashes(i) \o core \o Slashes(j))
                          = Stripped(c.url) \o <<"/">> \o core
                   /\ Trim(Trim(Slashes(i) \o core \o Slashes(j), {"/"}), {"/"})
                          = Trim(Slashes(i) \o core \o Slashes(j), {"/"})

C10_Witness ==
    /\ op.name \in SendOps /\ Len(sent) >= 1
    /\ op.path = <<"/", "v", "/">>
    /\ c.url[1] # "/" /\ c.url[Len(c.url)] = "/"
    /\ sent[1].uri = SubSeq(c.url, 1, Len(c.url) - 1) \o <<"/", "v">>

(***************************************************************************)
(* C11                                                                     *)
(***************************************************************************)
\* s ends with the characters of suffix
HasSuffix(s, suffix) ==
    /\ Len(s) >= Len(suffix)
    /\ SubSeq(s, Len(s) - Len(suffix) + 1, Len(s)) = suffix

\* C11: the token client's Auth() sends its request to the base URL
\* without its trailing "/api/" (or "/api"), followed by "/sso/oauth/token":
\* for a base URL <host>/api/ or <host>/api the request goes to exactly
\* <host>/sso/oauth/token, no further character of <host> removed.
C11_SsoEndpoint ==
    variant = "token" =>
        \A i \in 1..Len(sent) :
            sent[i].kind = "auth" =>
                /\ HasSuffix(c.url, <<"/", "a", "p", "i", "/">>) =>
                       sent[i].uri = SubSeq(c.url, 1, Len(c.url) - 5) \o SsoPath
                /\ HasSuffix(c.url, <<"/", "a", "p", "i">>) =>
                       sent[i].uri = SubSeq(c.url, 1, Len(c.url) - 4) \o SsoPath

(***************************************************************************)
(* C13                                                                     *)
(***************************************************************************)
\* C13: the retry the token client sends after a 401-triggered
\* re-authentication is the request of the first attempt again: same method,
\* same URI, same body bytes.
C13_RetrySameRequest ==
    (variant = "token" /\ Len(sent) = 3
     /\ sent[1].kind = "resource" /\ sent[3].kind = "resource")
    =>  /\ sent[3].method = sent[1].method
        /\ sent[3].uri = sent[1].uri
        /\ sent[3].body = sent[1].body

(***************************************************************************)
(* C14                                                                     *)
(***************************************************************************)
\* the token client got a 401 on its first attempt and the
\* re-authentication that followed has failed
ReauthHasFailed ==
    /\ variant = "token" /\ op.name \in SendOps
    /\ Len(recv) >= 2 /\ Is401(recv[1]) /\ ~Accepted(variant, recv[2])

\* C14: token client, first attempt answered 401, re-authentication fails:
\* no retry is sent and the call has failed with the error made of the 401
\* response's status line; the error of Auth() is not what is returned.
C14_FailedReauth ==
    ReauthHasFailed =>
        /\ pc = "idle"
        /\ Len(recv) = 2 /\ Len(sent) = 2
        /\ Cardinality(ResourceRequests) = 1
        /\ authCalls = 1
        /\ ret.op = op.name
        /\ ret.err = ErrStatus(recv[1].status)
        /\ ret.body = <<>>

C14_Witness ==
    /\ ReauthHasFailed /\ Returned(SendOps)
    /\ Auth(variant, c, recv[2]).err.kind = "sso"
    /\ ret.err = ErrStatus(401)

(***************************************************************************)
(* C12                                                                     *)
(***************************************************************************)
\* the request of the operation that has returned has failed: it could not
\* be built, or the round trip made last ended in a transport error, a failed
\* Auth(), a status of 300 or more or a body that cannot be read
RequestFailed ==
    /\ pc = "idle"
    /\ \/ sent = <<>>
       \/ /\ sent # <<>> /\ Len(recv) = Len(sent)
          /\ LET req == sent[Len(sent)]
                 ans == recv[Len(recv)]
             IN  \/ req.kind = "auth"
                 \/ ans.kind = "error"
                 \/ ans.kind = "response" /\ (ans.status >= 300 \/ ~ans.readOk)

\* the error of a request that has failed
RequestError ==
    IF sent = <<>> THEN ErrNewRequest
    ELSE LET ans == IF sent[Len(sent)].kind = "auth" THEN recv[1]
                    ELSE recv[Len(recv)]
         IN  IF ans.kind = "error" THEN ErrTransport
             ELSE IF ans.status >= 300 THEN ErrStatus(ans.status)
             ELSE ErrRead

\* C12: SendAndParse / GetAndParse unmarshal only what a successful request
\* returned.  While the request runs and after it has failed, xml.Unmarshal
\* has not been called and the caller's target is as it was; a failed
\* request's error is what the operation returns; a parse error is returned
\* only after a request that succeeded, whose body was unmarshalled once.
C12_ParseAfterSuccess ==
    op.name \in ParseOps =>
        /\ pc # "idle" => unmarshals = 0 /\ target = ZeroTarget
        /\ RequestFailed =>
               /\ unmarshals = 0 /\ target = ZeroTarget
               /\ ret = Ret(op, RequestError, <<>>)
        /\ (pc = "idle" /\ ~RequestFailed) =>
               /\ unmarshals = 1
               /\ ret.err \in {NoErr, ErrXML}
               /\ ret.err = NoErr <=> target # ZeroTarget
        /\ (pc = "idle" /\ ret.err = ErrXML) => ~RequestFailed

\* a request that failed after the permitted retry
C12_Witness ==
    /\ Returned(ParseOps) /\ RequestFailed
    /\ Len(sent) = 3 /\ ret.err = ErrStatus(300)
    /\ unmarshals = 0

\* a parse error, and a body unmarshalled into the target
C12_WitnessParseError ==
    Returned(ParseOps) /\ ~RequestFailed /\ ret.err = ErrXML /\ Len(sent) = 1

C12_WitnessParsed ==
    Returned(ParseOps) /\ ret.err = NoErr /\ target = <<"b">> /\ Len(sent) = 3

(***************************************************************************)
(* C15                                                                     *)
(***************************************************************************)
\* this step is the arrival of an answer that Auth() accepts
SuccessfulAuthStep ==
    /\ pc = "auth_wait"
    /\ Len(recv') = Len(recv) + 1
    /\ Accepted(variant, recv'[Len(recv')])

\* C15: the stored credential (accessToken / cookie) changes only in a step
\* in which an Auth() succeeds; a failed Auth(), Close(), the parsing step
\* and the request steps leave it as it is, and no step of any operation
\* turns a credential into the empty one.
C15_CredentialWrites ==
    [][/\ Credential(variant, c') # Credential(variant, c) => SuccessfulAuthStep
       /\ Credential(variant, c) # <<>> => Credential(variant, c') # <<>>]_vars

(***************************************************************************)
(* C16                                                                     *)
(***************************************************************************)
\* every operation that runs SendRequest
AllSendOps == SendOps \cup ParseOps

AuthRequests == {i \in 1..Len(sent) : sent[i].kind = "auth"}

\* a call of SendRequest ends after the round trips it may make: it never
\* has more than one round trip outstanding, it has returned when none is,
\* and it makes three at most
SendTerminates ==
    /\ Len(sent) <= 3
    /\ pc # "idle" => Len(sent) = Len(recv) + 1
    /\ pc = "idle" => Len(sent) = Len(recv)

\* the token client's call: two resource requests and one Auth() at most
TokenCallBounded ==
    variant = "token" =>
        /\ Cardinality(ResourceRequests) <= 2
        /\ Cardinality(AuthRequests) <= 1
        /\ authCalls <= 1

\* C16 as the claim states it: every SendRequest call terminates, the
\* token client's call makes at most two resource requests and at most one
\* Auth() request, and the cookie client's call makes exactly one request.
C16_AsStated ==
    op.name \in AllSendOps =>
        /\ SendTerminates
        /\ TokenCallBounded
        /\ (variant = "cookie" /\ pc = "idle") =>
               /\ Cardinality(ResourceRequests) = 1
               /\ AuthRequests = {} /\ authCalls = 0

\* C16: every SendRequest call terminates, the token client's call makes
\* at most two resource requests and at most one Auth() request, and the
\* cookie client's call makes at most one request and no Auth(): exactly one
\* unless the request cannot be built, when it makes none.
C16_CallBounded ==
    op.name \in AllSendOps =>
        /\ SendTerminates
        /\ TokenCallBounded
        /\ variant = "cookie" =>
               /\ Cardinality(ResourceRequests) <= 1
               /\ AuthRequests = {} /\ authCalls = 0
               /\ pc = "idle" =>
                      (Cardinality(ResourceRequests) = 0 <=> ret.err = ErrNewRequest)

\* a token call that has used up its two resource requests and its Auth()
C16_Witness ==
    /\ variant = "token" /\ Returned(AllSendOps)
    /\ Cardinality(ResourceRequests) = 2 /\ Cardinality(AuthRequests) = 1
    /\ Is401(recv[3])

\* a cookie call that has made its one request
C16_WitnessCookie ==
    /\ variant = "cookie" /\ Returned(AllSendOps)
    /\ Cardinality(ResourceRequests) = 1 /\ Is401(recv[1])

(***************************************************************************)
(* C17                                                                     *)
(***************************************************************************)
\* C17: Close() is not terminal.  Once Close() has returned the caller still
\* holds the client and Auth(), Get() and SendRequest() are still accepted;
\* the request such a call sends first carries the credential the client held
\* before Close(), and in the token client a 401 still leads to one
\* re-authentication and, when that succeeds, to the retry.
C17_CloseNotTerminal ==
    closed =>
        /\ client = "live"
        /\ (op.name = "Close" /\ pc = "idle") =>
               /\ ENABLED CallAuth
               /\ ENABLED CallGet(<<"v">>)
               /\ ENABLED CallSendRequest(<<"v">>, POST, <<"x">>)
               /\ Credential(variant, c) = lastAuth
        /\ (op.name = "Auth" /\ pc = "auth_wait") =>
               sent = <<AuthRequest(variant, c)>>
        /\ (op.name \in AllSendOps /\ sent # <<>>) =>
               /\ sent[1].kind = "resource"
               /\ authCalls = 0 => CredentialSent(variant, sent[1]) = lastAuth
        /\ (variant = "token" /\ op.name \in AllSendOps
            /\ Len(recv) >= 1 /\ Is401(recv[1])) =>
               /\ authCalls = 1
               /\ (Len(recv) >= 2 /\ Accepted(variant, recv[2])) =>
                      Len(sent) = 3 /\ sent[3].kind = "resource"

\* after Close(), a request answered 401, re-authenticated and retried
C17_Witness ==
    /\ closed /\ variant = "token" /\ Returned(SendOps)
    /\ Len(sent) = 3 /\ Is401(recv[1]) /\ ret.err = NoErr
    /\ CredentialSent(variant, sent[1]) # <<>>

(***************************************************************************)
(* C19                                                                     *)
(***************************************************************************)
\* C19: no operation leaks a response body: when an operation has returned,
\* the body of every response it obtained has been closed, in both clients
\* and on every path.
C19_NoBodyLeak ==
    pc = "idle" => open = {}

(***************************************************************************)
(* C18                                                                     *)
(***************************************************************************)
\* x is inside Auth(): its request is out or its write is under way
InAuth(x) == callers[x].pc \in {"auth_wait", "storing"}

\* C18: with two or more goroutines on one token client, the credential is
\* protected and re-authentication is serialized: two executions of Auth()
\* never overlap, and no request reads accessToken while an Auth() is
\* writing it.
C18_AuthSerialized ==
    /\ \A x, y \in Callers : (x # y) => ~(InAuth(x) /\ InAuth(y))
    /\ \A x \in Callers : ~callers[x].raced

====
